---- MODULE Spec2Model ----
(***************************************************************************)
(* Model of expensetracker.py: twelve monthly CSV files in data/, one      *)
(* SQLite database data/expenses.db with one table per month, and the five *)
(* functions that generate files, create tables, load files, aggregate and *)
(* filter.  Amounts are kept in cents.  TEXT values that the code compares *)
(* as strings (dates) are sequences of character codes.                    *)
(***************************************************************************)
EXTENDS Integers, Sequences, FiniteSets, TLC

(* ---- bounds of the model ---- *)
\* months iterated by every loop; the source iterates range(1, 13)
NumMonths == 2
\* rows written per generated file; the source writes 500
RowsPerFile == 1
\* cap on the rows of one table (insert_data is not taken beyond it)
MaxTableRows == 2

Months == 1..NumMonths

VARIABLES directory, db, conn, page, before, menu, repeat

vars == <<directory, db, conn, page, before, menu, repeat>>

(* ---- text ---- *)
Digit(n) == 48 + n
Dash == 45

\* str(datetime.date): YYYY-MM-DD, zero padded
isoformat(d) ==
    << Digit(d.y \div 1000), Digit((d.y \div 100) % 10),
       Digit((d.y \div 10) % 10), Digit(d.y % 10), Dash,
       Digit(d.m \div 10), Digit(d.m % 10), Dash,
       Digit(d.d \div 10), Digit(d.d % 10) >>

\* SQLite BINARY collation on TEXT: bytewise, a proper prefix sorts first
RECURSIVE TextLeq(_, _)
TextLeq(a, b) ==
    IF a = <<>> THEN TRUE
    ELSE IF b = <<>> THEN FALSE
    ELSE IF Head(a) < Head(b) THEN TRUE
    ELSE IF Head(a) > Head(b) THEN FALSE
    ELSE TextLeq(Tail(a), Tail(b))

(* ---- the enumerations of the source ---- *)
categories == {"Food", "Transportation", "Bills", "Groceries", "Subscriptions", "Others"}
payment_modes == {"Cash", "Online"}

\* header of a generated CSV file, in DataFrame column order
CsvCols == <<"Date", "Category", "Payment_Mode", "Description", "Amount_Paid", "Cashback">>
\* columns of CREATE TABLE in create_tables
TableCols == <<"ID">> \o CsvCols

(* ---- sampled inputs ---- *)
DatePool == { [y |-> 2026, m |-> 2, d |-> 10], [y |-> 2026, m |-> 11, d |-> 3] }

\* the rows the random generator is sampled at
RecordPool ==
    { [Date |-> isoformat([y |-> 2026, m |-> 2, d |-> 10]), Category |-> "Food",
       Payment_Mode |-> "Cash", Description |-> "s", Amount_Paid |-> 10000, Cashback |-> 0],
      [Date |-> isoformat([y |-> 2026, m |-> 11, d |-> 3]), Category |-> "Bills",
       Payment_Mode |-> "Online", Description |-> "s", Amount_Paid |-> 10000, Cashback |-> 0] }

SeqsUpTo(S, n) == UNION { [1..k -> S] : k \in 0..n }
SeqsOf(S, n) == [1..n -> S]

(* ---- files ---- *)
Absent == [kind |-> "absent", rows |-> <<>>]
Malformed == [kind |-> "malformed", rows |-> <<>>]
Csv(rows) == [kind |-> "csv", rows |-> rows]

FileStates == {Absent, Malformed} \cup { Csv(s) : s \in SeqsUpTo(RecordPool, RowsPerFile) }

(* ---- tables ---- *)
\* a table that does not exist has no columns
NoTable == [cols |-> <<>>, rows |-> <<>>]
exists(t) == t.cols # <<>>

NoFilter == [cats |-> {}, modes |-> {}, start |-> <<>>, end |-> <<>>]
NoMenu == [choice |-> "", button |-> FALSE]
Page(op, status) ==
    [op |-> op, status |-> status, warned |-> {}, df |-> <<>>, filter |-> NoFilter]

Init ==
    /\ directory \in [Months -> FileStates]
    /\ db = [m \in Months |-> NoTable]
    /\ conn = "none"
    /\ page = Page("none", "ok")
    /\ before = db
    /\ menu = NoMenu
    /\ repeat = FALSE

(* ---- generate_sample_data ---- *)
generate_sample_data ==
    /\ directory' \in [Months -> { Csv(s) : s \in SeqsOf(RecordPool, RowsPerFile) }]
    /\ page' = Page("generate_sample_data", "ok")
    /\ conn' = "none"
    /\ before' = db
    /\ repeat' = FALSE
    /\ UNCHANGED db

(* ---- create_tables ---- *)
\* DROP TABLE IF EXISTS followed by CREATE TABLE
CreateOrReplace(t) == [cols |-> TableCols, rows |-> <<>>]

\* CREATE TABLE IF NOT EXISTS
CreateIfNotExists(t) == IF exists(t) THEN t ELSE [cols |-> TableCols, rows |-> <<>>]

create_tables ==
    /\ db' = [m \in Months |-> CreateIfNotExists(db[m])]
    /\ page' = Page("create_tables", "ok")
    /\ conn' = "closed"
    /\ before' = db
    /\ repeat' = FALSE
    /\ UNCHANGED directory

(* ---- insert_data ---- *)
\* DataFrame.to_sql(table_name, conn, if_exists="replace", index=False)
to_sql_replace(t, rows) == [cols |-> CsvCols, rows |-> rows]

\* an append that first drops the frame's rows already stored in the table
to_sql_dedup(t, rows) ==
    IF exists(t)
    THEN [t EXCEPT !.rows =
            @ \o SelectSeq(rows, LAMBDA r : \A i \in 1..Len(t.rows) : t.rows[i] # r)]
    ELSE [cols |-> CsvCols, rows |-> rows]

\* DataFrame.to_sql(table_name, conn, if_exists="append", index=False): a
\* missing table is created from the frame's own columns, an existing one
\* is appended to
to_sql(t, rows) ==
    IF exists(t) THEN [t EXCEPT !.rows = @ \o rows]
    ELSE [cols |-> CsvCols, rows |-> rows]

\* the INSERT names the frame's columns; each must be a column of the table
Insertable(t) ==
    ~exists(t) \/ \A i \in 1..Len(CsvCols) : \E j \in 1..Len(t.cols) : t.cols[j] = CsvCols[i]

\* the loop stops at a missing file
StopAtMissing(m, tbls, warned) ==
    [db |-> tbls, status |-> "ok", warned |-> warned \cup {m}]

RECURSIVE LoadFrom(_, _, _)
RECURSIVE SkipMissing(_, _, _)

\* st.warning(...); continue
SkipMissing(m, tbls, warned) == LoadFrom(m + 1, tbls, warned \cup {m})

\* the loop body of insert_data from month m on, with the tables so far
LoadFrom(m, tbls, warned) ==
    IF m > NumMonths THEN [db |-> tbls, status |-> "ok", warned |-> warned]
    ELSE IF directory[m].kind = "absent" THEN SkipMissing(m, tbls, warned)
    ELSE IF directory[m].kind = "malformed" \/ ~Insertable(tbls[m])
         THEN [db |-> tbls, status |-> "error", warned |-> warned]
    ELSE LoadFrom(m + 1, [tbls EXCEPT ![m] = to_sql(@, directory[m].rows)], warned)

insert_data ==
    LET r == LoadFrom(1, db, {}) IN
    /\ \A m \in Months : Len(r.db[m].rows) <= MaxTableRows
    /\ db' = r.db
    /\ page' = [Page("insert_data", r.status) EXCEPT !.warned = r.warned]
    /\ conn' = IF r.status = "ok" THEN "closed" ELSE "open"
    /\ before' = db
    /\ repeat' = (page.op = "insert_data")
    /\ UNCHANGED directory

(* ---- the UNION ALL query shared by both views ---- *)
\* SELECT * FROM one table: ID is the rowid, assigned in insertion order
SelectStar(t) ==
    [i \in 1..Len(t.rows) |->
        [c \in 1..Len(t.cols) |-> IF t.cols[c] = "ID" THEN i ELSE t.rows[i][t.cols[c]]]]

RECURSIVE UnionAll(_)
UnionAll(m) == IF m > NumMonths THEN <<>> ELSE SelectStar(db[m]) \o UnionAll(m + 1)

\* "no such table", or SELECTs of UNION ALL with different numbers of columns
QueryFails ==
    \/ \E m \in Months : ~exists(db[m])
    \/ \E m \in Months : Len(db[m].cols) # Len(db[1].cols)

\* the compound SELECT takes its column names from the first SELECT
Col(name) == CHOOSE c \in 1..Len(db[1].cols) : db[1].cols[c] = name

RECURSIVE SumWhere(_, _, _, _)
SumWhere(rows, key, val, k) ==
    IF rows = <<>> THEN 0
    ELSE (IF Head(rows)[key] = k THEN Head(rows)[val] ELSE 0) + SumWhere(Tail(rows), key, val, k)

Orderings(S) ==
    { s \in [1..Cardinality(S) -> S] : \A i, j \in 1..Cardinality(S) : i # j => s[i] # s[j] }

(* ---- show_total_spending ---- *)
\* GROUP BY Category with SUM(Amount_Paid)
Grouped ==
    LET rows == UnionAll(1) IN
    { <<rows[i][Col("Category")],
        SumWhere(rows, Col("Category"), Col("Amount_Paid"), rows[i][Col("Category")])>> :
      i \in 1..Len(rows) }

\* ORDER BY Total_Spent DESC: the order among equal totals is the engine's
Ordered == { s \in Orderings(Grouped) : \A i, j \in 1..Len(s) : i < j => s[i][2] >= s[j][2] }

show_total_spending ==
    /\ IF QueryFails
       THEN /\ page' = Page("show_total_spending", "error")
            /\ conn' = "open"
       ELSE /\ \E s \in Ordered : page' = [Page("show_total_spending", "ok") EXCEPT !.df = s]
            /\ conn' = "closed"
    /\ before' = db
    /\ repeat' = FALSE
    /\ UNCHANGED <<directory, db>>

(* ---- interactive_dashboard ---- *)
\* selections of the two multiselects the model is checked at
CategoryChoices == { {}, {"Food"}, {"Subscriptions"} }
PaymentChoices == { {}, {"Cash"} }

\* WHERE Date BETWEEN '{start_date}' AND '{end_date}' [AND Category IN (...)]
\* [AND Payment_Mode IN (...)]
Where(row, f) ==
    /\ TextLeq(f.start, row[Col("Date")]) /\ TextLeq(row[Col("Date")], f.end)
    /\ f.cats # {} => row[Col("Category")] \in f.cats
    /\ f.modes # {} => row[Col("Payment_Mode")] \in f.modes

\* the rows of the combined SELECT that pass the WHERE clause, in its order
RECURSIVE Select(_, _)
Select(rows, f) ==
    IF rows = <<>> THEN <<>>
    ELSE (IF Where(Head(rows), f) THEN <<Head(rows)>> ELSE <<>>) \o Select(Tail(rows), f)

interactive_dashboard ==
    /\ \E cs \in CategoryChoices, ms \in PaymentChoices, sd \in DatePool, ed \in DatePool :
         LET f == [cats |-> cs, modes |-> ms, start |-> isoformat(sd), end |-> isoformat(ed)]
         IN IF QueryFails
            THEN /\ page' = [Page("interactive_dashboard", "error") EXCEPT !.filter = f]
                 /\ conn' = "open"
            ELSE /\ page' = [Page("interactive_dashboard", "ok") EXCEPT
                                !.filter = f, !.df = Select(UnionAll(1), f)]
                 /\ conn' = "closed"
    /\ before' = db
    /\ repeat' = FALSE
    /\ UNCHANGED <<directory, db>>

(* ---- the module's main block ---- *)
\* if "__name_ "== "__main__":
MainGuard == "__name_ " = "__main__"

menu_items == {"Generate Sample Data", "Create Tables", "Insert Data", "View Spending",
               "Interactive Dashboard"}

\* nothing is called: the page of this run shows no component
Idle ==
    /\ page' = Page("none", "ok")
    /\ conn' = "none"
    /\ before' = db
    /\ repeat' = FALSE
    /\ UNCHANGED <<directory, db>>

\* the if/elif chain under the guard
Dispatch(choice, button) ==
    CASE choice = "Generate Sample Data" -> IF button THEN generate_sample_data ELSE Idle
      [] choice = "Create Tables" -> IF button THEN create_tables ELSE Idle
      [] choice = "Insert Data" -> IF button THEN insert_data ELSE Idle
      [] choice = "View Spending" -> show_total_spending
      [] choice = "Interactive Dashboard" -> interactive_dashboard

\* one run of the script with the sidebar selection and the button state
RunScript ==
    \E choice \in menu_items, button \in BOOLEAN :
        /\ IF MainGuard THEN Dispatch(choice, button) ELSE Idle
        /\ menu' = [choice |-> choice, button |-> button]

\* a call of one function of the module
Call(f) == f /\ menu' = NoMenu

Next ==
    \/ Call(generate_sample_data)
    \/ Call(create_tables)
    \/ Call(insert_data)
    \/ Call(show_total_spending)
    \/ Call(interactive_dashboard)
    \/ RunScript

Spec == Init /\ [][Next]_vars

(***************************************************************************)
(* Properties                                                              *)
(***************************************************************************)
IsPrefix(a, b) == Len(a) <= Len(b) /\ SubSeq(b, 1, Len(a)) = a
AllExist == \A m \in Months : exists(db[m])
\* the run of insert_data gets as far as month m: no earlier load raises
Reached(m) == \A k \in 1..(m - 1) : directory[k].kind # "malformed"
WellFormed(m) == directory[m].kind = "csv"

(* ---- C1 ---- *)
\* C1 as stated: after one run of insert_data every month whose file is
\* present and well-formed has gained exactly the rows of its file.
C1_AsStated ==
    page.op = "insert_data" =>
        \A m \in Months : WellFormed(m) =>
            Len(db[m].rows) = Len(before[m].rows) + Len(directory[m].rows)

C1_OneRun ==
    page.op = "insert_data" =>
        \A m \in Months : (WellFormed(m) /\ Reached(m)) =>
            db[m].rows = before[m].rows \o directory[m].rows

C1_SecondRun ==
    (page.op = "insert_data" /\ page'.op = "insert_data") =>
        \A m \in Months : (WellFormed(m) /\ Reached(m)) =>
            Len(db'[m].rows) = Len(before[m].rows) + 2 * Len(directory[m].rows)

\* C1 (amended): for every month whose file is present and well-formed and
\* that the run reaches (no earlier month's load raises), one run of
\* insert_data appends exactly the rows of the file, duplicates included,
\* and a second run against the unchanged file makes the increase twice
\* the number of rows of the file.
C1_RowCount == []C1_OneRun /\ [][C1_SecondRun]_vars

\* two runs in a row have each appended the same non-empty file
C1_Witness ==
    /\ page.op = "insert_data" /\ repeat
    /\ \E m \in Months :
         /\ WellFormed(m) /\ Reached(m) /\ directory[m].rows # <<>>
         /\ db[m].rows = directory[m].rows \o directory[m].rows

(* ---- C2 ---- *)
C2_After ==
    page.op = "create_tables" =>
        /\ page.status = "ok"
        /\ \A m \in Months :
             /\ exists(db[m])
             /\ ~exists(before[m]) => db[m].rows = <<>>
             /\ exists(before[m]) => db[m] = before[m]

C2_Again == (page.op = "create_tables" /\ page'.op = "create_tables") => db' = db

\* C2: after create_tables a table exists for every month, a table created
\* by the call is empty, a table that existed keeps its rows and columns,
\* and a second run changes nothing.
C2_CreateTables == []C2_After /\ [][C2_Again]_vars

\* create_tables has met a table holding rows and a month without a table
C2_Witness ==
    /\ page.op = "create_tables"
    /\ \E m \in Months : exists(before[m]) /\ before[m].rows # <<>>
    /\ \E m \in Months : ~exists(before[m])

(* ---- C3 ---- *)
RECURSIVE Records(_)
Records(m) == IF m > NumMonths THEN <<>> ELSE db[m].rows \o Records(m + 1)

RECURSIVE SumAmount(_)
SumAmount(rs) == IF rs = <<>> THEN 0 ELSE Head(rs).Amount_Paid + SumAmount(Tail(rs))

RECURSIVE SumTotal(_)
SumTotal(df) == IF df = <<>> THEN 0 ELSE Head(df)[2] + SumTotal(Tail(df))

CategoriesPresent == { Records(1)[i].Category : i \in 1..Len(Records(1)) }

\* C3: when every monthly table exists, show_total_spending returns one row
\* per category that has a record, none for the others, and the totals add
\* up to the sum of Amount_Paid over all records.
C3_Totals ==
    (page.op = "show_total_spending" /\ AllExist) =>
        /\ page.status = "ok"
        /\ { page.df[i][1] : i \in 1..Len(page.df) } = CategoriesPresent
        /\ Len(page.df) = Cardinality(CategoriesPresent)
        /\ SumTotal(page.df) = SumAmount(Records(1))

(* ---- C4 ---- *)
C4_Descending ==
    (page.op = "show_total_spending" /\ page.status = "ok") =>
        \A i, j \in 1..Len(page.df) : i < j => page.df[i][2] >= page.df[j][2]

C4_SameOrder ==
    (/\ page.op = "show_total_spending" /\ page.status = "ok"
     /\ page'.op = "show_total_spending") => page'.df = page.df

\* C4: the rows of show_total_spending are in descending order of
\* Total_Spent and two runs over the same tables give the same row order.
C4_Order == []C4_Descending /\ [][C4_SameOrder]_vars

(* ---- C5 ---- *)
Num(c) == c - 48
\* the calendar date written as YYYY-MM-DD
ParseDate(t) ==
    [y |-> Num(t[1]) * 1000 + Num(t[2]) * 100 + Num(t[3]) * 10 + Num(t[4]),
     m |-> Num(t[6]) * 10 + Num(t[7]),
     d |-> Num(t[9]) * 10 + Num(t[10])]
DateLeq(a, b) ==
    \/ a.y < b.y
    \/ a.y = b.y /\ a.m < b.m
    \/ a.y = b.y /\ a.m = b.m /\ a.d <= b.d

Matches(r, f) ==
    /\ DateLeq(ParseDate(f.start), ParseDate(r.Date))
    /\ DateLeq(ParseDate(r.Date), ParseDate(f.end))
    /\ f.cats = {} \/ r.Category \in f.cats
    /\ f.modes = {} \/ r.Payment_Mode \in f.modes

Stored(r) == { <<m, i>> \in Months \X (1..MaxTableRows) : i <= Len(db[m].rows) /\ db[m].rows[i] = r }
Returned(r) ==
    { j \in 1..Len(page.df) : \A c \in 1..Len(CsvCols) : page.df[j][Col(CsvCols[c])] = r[CsvCols[c]] }

\* C5: interactive_dashboard returns exactly the records of the union of
\* the monthly tables whose Date is in [start, end] and whose Category and
\* Payment_Mode are in the selections, an empty selection not filtering.
C5_Filter ==
    (page.op = "interactive_dashboard" /\ AllExist) =>
        /\ page.status = "ok"
        /\ \A r \in RecordPool :
             Cardinality(Returned(r)) = IF Matches(r, page.filter) THEN Cardinality(Stored(r)) ELSE 0
        /\ \A j \in 1..Len(page.df) : \E r \in RecordPool : j \in Returned(r)

(* ---- C6 ---- *)
Loaded(k) == db[k].rows = before[k].rows \o directory[k].rows

\* C6 as stated: every month whose file is absent gets its warning, keeps
\* its table, and every later month whose file is present is loaded.
C6_AsStated ==
    page.op = "insert_data" =>
        \A m \in Months : directory[m].kind = "absent" =>
            /\ m \in page.warned
            /\ db[m] = before[m]
            /\ \A k \in Months : (k > m /\ WellFormed(k)) => Loaded(k)

\* C6 (amended): a month whose file is absent leaves its table unchanged;
\* when the run reaches it (no earlier month's load raises) it is warned
\* about and does not end the run: every later month whose file is present
\* and well-formed and that the run reaches is loaded.
C6_SkipMissing ==
    page.op = "insert_data" =>
        \A m \in Months : directory[m].kind = "absent" =>
            /\ db[m] = before[m]
            /\ Reached(m) => m \in page.warned
            /\ \A k \in Months : (k > m /\ WellFormed(k) /\ Reached(k)) => Loaded(k)

\* a later month's non-empty file was loaded after an absent month was skipped
C6_Witness ==
    /\ page.op = "insert_data"
    /\ \E m, k \in Months :
         /\ k > m /\ directory[m].kind = "absent" /\ m \in page.warned
         /\ WellFormed(k) /\ directory[k].rows # <<>> /\ Loaded(k)

(* ---- C7 ---- *)
\* C7: in every reachable state the monthly tables that exist have the same
\* columns.
C7_SameSchema ==
    \A m, k \in Months : (exists(db[m]) /\ exists(db[k])) => db[m].cols = db[k].cols

(* ---- C8 ---- *)
C8_Step ==
    /\ \A m \in Months :
         exists(db[m]) =>
            /\ exists(db'[m])
            /\ db'[m].cols = db[m].cols
            /\ IsPrefix(db[m].rows, db'[m].rows)
    /\ (\E m \in Months : db'[m].rows # db[m].rows) => page'.op = "insert_data"
    /\ page'.op = "generate_sample_data" => db' = db

\* C8: no step removes or changes a stored record or drops a table, only
\* insert_data adds records, and rewriting the files changes no table.
C8_AppendOnly == [][C8_Step]_vars

\* the files were rewritten while a table held records
C8_Witness ==
    /\ page.op = "generate_sample_data"
    /\ \E m \in Months : db[m].rows # <<>> /\ db[m] = before[m]

(* ---- C9 ---- *)
Component(choice) ==
    CASE choice = "Generate Sample Data" -> "generate_sample_data"
      [] choice = "Create Tables" -> "create_tables"
      [] choice = "Insert Data" -> "insert_data"
      [] choice = "View Spending" -> "show_total_spending"
      [] choice = "Interactive Dashboard" -> "interactive_dashboard"

\* C9: a run of the script with a menu action chosen (and its button
\* pressed, where the action has one) invokes the component of that action.
C9_Menu ==
    (/\ menu # NoMenu
     /\ menu.button \/ menu.choice \in {"View Spending", "Interactive Dashboard"})
        => page.op = Component(menu.choice)

(* ---- C10 ---- *)
\* C10: the connection an action opened is closed when the action is over,
\* on every exit path.
C10_Closed == conn # "open"
====
